---------------------------- MODULE Spec2Model ----------------------------
(***************************************************************************)
(* A model of the mft crate's USN journal decoder                          *)
(* (src/usn_journal/entry.rs) and of the mft_dump command line tool        *)
(* (src/bin/mft_dump.rs).                                                  *)
(*                                                                         *)
(* Integers wider than 16 bits are kept as decimal numerals (sequences of  *)
(* decimal digits, most significant first), computed from the bytes by     *)
(* long division, so that a decoded value can be compared with the number  *)
(* the tests name without leaving the range of machine integers.           *)
(***************************************************************************)
EXTENDS Integers, Sequences, FiniteSets, TLC

(***************************************************************************)
(* Bounds of the model.                                                    *)
(***************************************************************************)
\* The number of chunks (record images, padding, truncated tails) a journal
\* stream is made of.
MaxChunks == 3

(***************************************************************************)
(* Bytes and numerals.                                                     *)
(***************************************************************************)
Reverse(s) == [i \in 1..Len(s) |-> s[Len(s) + 1 - i]]

RECURSIVE Zeros(_)
Zeros(n) == IF n = 0 THEN <<>> ELSE <<0>> \o Zeros(n - 1)

\* One step of the long division by 10 of a base-256 numeral (most
\* significant digit first): the quotient's digits and the remainder.
RECURSIVE DivMod10(_, _, _)
DivMod10(be, carry, q) ==
    IF be = <<>> THEN [q |-> q, r |-> carry]
    ELSE LET cur == carry * 256 + Head(be)
         IN  DivMod10(Tail(be), cur % 10, Append(q, cur \div 10))

RECURSIVE StripZeros(_)
StripZeros(be) ==
    IF be # <<>> /\ Head(be) = 0 THEN StripZeros(Tail(be)) ELSE be

\* The one element of a singleton set.  (A value bound as the element of a
\* set, x \in {e}, is computed once for all its uses.)
The(S) == CHOOSE x \in S : TRUE

RECURSIVE DecDigits(_)
DecDigits(be) ==
    The({ IF n = <<>> THEN <<>>
          ELSE The({ Append(DecDigits(d.q), d.r) : d \in {DivMod10(n, 0, <<>>)} })
          : n \in {StripZeros(be)} })

\* The decimal numeral of the unsigned value of the bytes `le`, least
\* significant byte first (byteorder's LittleEndian).
ULE(le) == LET d == DecDigits(Reverse(le)) IN IF d = <<>> THEN <<0>> ELSE d

\* Two's complement negation of little-endian bytes: invert, add one.
RECURSIVE AddOneLE(_)
AddOneLE(le) ==
    IF le = <<>> THEN <<>>
    ELSE IF Head(le) = 255 THEN <<0>> \o AddOneLE(Tail(le))
    ELSE <<Head(le) + 1>> \o Tail(le)

NegateLE(le) == AddOneLE([i \in 1..Len(le) |-> 255 - le[i]])

\* A signed value: its sign and the decimal numeral of its magnitude.
ILE(le) ==
    IF le[Len(le)] >= 128
    THEN [neg |-> TRUE, mag |-> ULE(NegateLE(le))]
    ELSE [neg |-> FALSE, mag |-> ULE(le)]

\* A 16-bit value fits a machine integer of the model.
U16LE(le) == le[1] + 256 * le[2]

RECURSIVE BitAnd(_, _)
BitAnd(a, b) ==
    IF a = 0 \/ b = 0 THEN 0
    ELSE (a % 2) * (b % 2) + 2 * BitAnd(a \div 2, b \div 2)

AndLE(x, mask) == [i \in 1..Len(x) |-> BitAnd(x[i], mask[i])]

(***************************************************************************)
(* bitflags: the union of the defined flags, little-endian.                *)
(***************************************************************************)
\* 0x80BFFF77: the 22 flags of UsnReasonFlags
UsnReasonFlags_all == <<119, 255, 191, 128>>
\* 0x00000007: the 3 flags of UsnSourceInfoFlags
UsnSourceInfoFlags_all == <<7, 0, 0, 0>>
\* FileAttributeFlags is declared in crate::attribute, outside the files at
\* hand: the 13 flags of the NTFS file attribute word, 0x00007FE7 (among them
\* ARCHIVE 0x20 and NOT_CONTENT_INDEXED 0x2000, which test_record relies on).
FileAttributeFlags_all == <<231, 127, 0, 0>>

\* from_bits_retain: the bits as they are, undefined ones included (the
\* variant C17 is tested against).
from_bits_retain(raw, all) == raw

\* from_bits_truncate: the bits that are not a defined flag are unset.
from_bits_truncate(raw, all) == AndLE(raw, all)

(***************************************************************************)
(* encoding::all::UTF_16LE.decode(bytes, DecoderTrap::Ignore): code units  *)
(* are pairs of bytes, low byte first; a lead surrogate followed by a      *)
(* trail surrogate is one character; a surrogate without its partner and a *)
(* final odd byte are malformed and, under the Ignore trap, dropped.  The  *)
(* result is the sequence of code points.                                  *)
(***************************************************************************)
IsLead(u) == 55296 <= u /\ u <= 56319
IsTrail(u) == 56320 <= u /\ u <= 57343

\* The code units of the bytes; a final odd byte makes none.
CodeUnits(bytes) ==
    [i \in 1..(Len(bytes) \div 2) |-> bytes[2 * i - 1] + 256 * bytes[2 * i]]

\* The characters of the code units from the i-th on.
RECURSIVE DecodeUnits(_, _)
DecodeUnits(us, i) ==
    IF i > Len(us) THEN <<>>
    ELSE IF IsLead(us[i])
         THEN IF i < Len(us) /\ IsTrail(us[i + 1])
              THEN <<65536 + (us[i] - 55296) * 1024 + (us[i + 1] - 56320)>>
                       \o DecodeUnits(us, i + 2)
              ELSE DecodeUnits(us, i + 1)
         ELSE IF IsTrail(us[i]) THEN DecodeUnits(us, i + 1)
         ELSE <<us[i]>> \o DecodeUnits(us, i + 1)

\* The decoding as it would be if every code unit were taken as a character
\* (the variant C11 is tested against).
UTF_16LE_decode_each_unit(bytes) == CodeUnits(bytes)

UTF_16LE_decode(bytes) == DecodeUnits(CodeUnits(bytes), 1)

(***************************************************************************)
(* UsnJournalEntry::from_buffer.  The stream is a cursor over `buf`; each  *)
(* read takes the next bytes and fails (UnexpectedEof, returned by `?`)    *)
(* when fewer are left.                                                    *)
(***************************************************************************)
\* The header with usn and time_stamp in each other's place (the variant C6
\* is tested against).
HeaderFields_time_stamp_first ==
    << <<"record_length", 4>>, <<"major_version", 2>>, <<"minor_version", 2>>,
       <<"file_reference_number", 8>>, <<"parent_file_reference_number", 8>>,
       <<"time_stamp", 8>>, <<"usn", 8>>, <<"reason", 4>>, <<"source_info", 4>>,
       <<"security_id", 4>>, <<"file_attributes", 4>>,
       <<"file_name_length", 2>>, <<"file_name_offset", 2>> >>

\* The fixed header, in the order from_buffer reads it: name and width.
HeaderFields ==
    << <<"record_length", 4>>, <<"major_version", 2>>, <<"minor_version", 2>>,
       <<"file_reference_number", 8>>, <<"parent_file_reference_number", 8>>,
       <<"usn", 8>>, <<"time_stamp", 8>>, <<"reason", 4>>, <<"source_info", 4>>,
       <<"security_id", 4>>, <<"file_attributes", 4>>,
       <<"file_name_length", 2>>, <<"file_name_offset", 2>> >>

\* The reads of the header, one after the other from cursor position `at`
\* (field k onwards): the raw bytes of each field and the cursor after them,
\* or the failure of the first read that finds too few bytes.
RECURSIVE read_header(_, _, _, _)
read_header(buf, at, k, raw) ==
    IF k > Len(HeaderFields) THEN [ok |-> TRUE, at |-> at, raw |-> raw]
    ELSE LET w == HeaderFields[k][2]
         IN  IF at + w > Len(buf) THEN [ok |-> FALSE, at |-> at, raw |-> raw]
             ELSE read_header(buf, at + w, k + 1,
                      raw @@ (HeaderFields[k][1] :> SubSeq(buf, at + 1, at + w)))

NoEntry == [record_length |-> <<>>]

\* The result of from_buffer on a cursor at the start of `buf`: ok, the entry
\* and `consumed`, the number of bytes of `buf` the decoding has read.
from_buffer(buf) ==
    The({
        IF ~h.ok THEN [ok |-> FALSE, entry |-> NoEntry, consumed |-> h.at]
        ELSE
        LET file_name_length == U16LE(h.raw["file_name_length"])
        IN  \* let mut name_buffer = vec![0; file_name_length]; read_exact
            IF h.at + file_name_length > Len(buf)
            THEN [ok |-> FALSE, entry |-> NoEntry, consumed |-> h.at]
            ELSE
            LET name_buffer == SubSeq(buf, h.at + 1, h.at + file_name_length)
            IN  [ok |-> TRUE,
                 consumed |-> h.at + file_name_length,
                 entry |->
                   [record_length |-> ULE(h.raw["record_length"]),
                    major_version |-> U16LE(h.raw["major_version"]),
                    minor_version |-> U16LE(h.raw["minor_version"]),
                    file_reference_number |-> ULE(h.raw["file_reference_number"]),
                    parent_file_reference_number |->
                        ULE(h.raw["parent_file_reference_number"]),
                    usn |-> ILE(h.raw["usn"]),
                    time_stamp |-> ULE(h.raw["time_stamp"]),
                    reason |-> ULE(from_bits_truncate(h.raw["reason"],
                                                      UsnReasonFlags_all)),
                    source_info |-> ULE(from_bits_truncate(h.raw["source_info"],
                                                      UsnSourceInfoFlags_all)),
                    security_id |-> ULE(h.raw["security_id"]),
                    file_attributes |->
                        ULE(from_bits_truncate(h.raw["file_attributes"],
                                               FileAttributeFlags_all)),
                    file_name_length |-> file_name_length,
                    file_name_offset |-> U16LE(h.raw["file_name_offset"]),
                    file_name |-> UTF_16LE_decode(name_buffer)]]
        : h \in {read_header(buf, 0, 1, <<>>)} })

(***************************************************************************)
(* Journal streams.  A stream is the concatenation of at most MaxChunks    *)
(* chunks: images of records (well-formed or not), zero padding, and tails *)
(* cut short.                                                              *)
(***************************************************************************)
\* The 96-byte record of the tests (tests::BUFFER).
BUFFER ==
    << 96, 0, 0, 0, 2, 0, 0, 0, 115, 0, 0, 0, 0, 0, 104, 145,
       59, 42, 2, 0, 0, 0, 7, 0, 0, 0, 128, 188, 4, 0, 0, 0,
       83, 199, 139, 24, 197, 204, 206, 1, 2, 0, 0, 0, 0, 0, 0, 0,
       0, 0, 0, 0, 32, 32, 0, 0, 32, 0, 60, 0, 66, 0, 84, 0,
       68, 0, 101, 0, 118, 0, 77, 0, 97, 0, 110, 0, 97, 0, 103, 0,
       101, 0, 114, 0, 46, 0, 108, 0, 111, 0, 103, 0, 0, 0, 0, 0 >>

\* The image of a record: the header with the given record_length, usn,
\* reason and file_name_length (version 2.0, file_name_offset 60), then `tail`.
RecordImage(record_length, usn, reason, file_name_length, tail) ==
    record_length \o <<2, 0, 0, 0>>
        \o <<115, 0, 0, 0, 0, 0, 1, 0>> \o <<59, 0, 0, 0, 0, 0, 7, 0>>
        \o usn \o <<83, 199, 0, 0, 0, 0, 0, 0>>
        \o reason \o <<0, 0, 0, 0>> \o <<0, 0, 0, 0>> \o <<32, 0, 0, 0>>
        \o <<file_name_length, 0>> \o <<60, 0>> \o tail

\* "hi" in UTF-16LE
NameHi == <<104, 0, 105, 0>>

SmallRecord ==
    RecordImage(<<64, 0, 0, 0>>, <<7, 0, 0, 0, 0, 0, 0, 0>>, <<0, 1, 0, 0>>, 4, NameHi)

Chunk ==
    [ sample   |-> BUFFER,
      small    |-> SmallRecord,
      \* usn = -1
      negusn   |-> RecordImage(<<64, 0, 0, 0>>,
                       <<255, 255, 255, 255, 255, 255, 255, 255>>,
                       <<0, 1, 0, 0>>, 4, NameHi),
      \* file_name_length 8 in a record of 64 bytes: 4 bytes of name are missing
      longname |-> RecordImage(<<64, 0, 0, 0>>, <<7, 0, 0, 0, 0, 0, 0, 0>>,
                       <<0, 1, 0, 0>>, 8, NameHi),
      \* record_length 8, shorter than the fixed header
      tiny     |-> <<8, 0, 0, 0, 2, 0, 0, 0>>,
      \* record_length 2, shorter than the length field itself
      rl2      |-> <<2, 0, 0, 0>>,
      \* zero padding: a whole zero length field, and a single zero byte
      zero4    |-> <<0, 0, 0, 0>>,
      zero1    |-> <<0>>,
      \* the first 30 bytes of a record of 64
      cut      |-> SubSeq(SmallRecord, 1, 30),
      \* record_length 0xFFFFFFFF
      huge     |-> <<255, 255, 255, 255, 2, 0>> ]

ChunkNames == DOMAIN Chunk

Shapes == UNION {[1..n -> ChunkNames] : n \in 0..MaxChunks}

RECURSIVE Concat(_)
Concat(shape) ==
    IF shape = <<>> THEN <<>> ELSE Chunk[Head(shape)] \o Concat(Tail(shape))

\* The offset at which chunk i of the shape begins.
ChunkStart(sh, i) == Len(Concat(SubSeq(sh, 1, i - 1)))

(***************************************************************************)
(* UsnJournalParser<T>::next over a stream that holds the bytes `data`     *)
(* and never fails but by reaching its end (a Cursor, a BufReader over a   *)
(* readable file).                                                         *)
(***************************************************************************)
VARIABLES
    shape,   \* the chunks the stream was made of (fixed)
    data,    \* self.data's bytes (fixed)
    pos,     \* self.data's stream position
    pc,      \* "idle": between calls; "have_length": in next, the length is
             \* read; "done": next has returned None and the consumer's loop ended
    cur,     \* next's locals start_stream_position and record_length (bytes)
    last,    \* what the last call of next returned, and from where
    oks,     \* the Ok items yielded so far, in order, each with its start
    errAt    \* the stream positions for which an Err item was yielded

usnVars == <<shape, data, pos, pc, cur, last, oks, errAt>>

\* Whether the u32 of the little-endian bytes `le` is at most n (n < 65536).
AtMost(le, n) == le[3] = 0 /\ le[4] = 0 /\ U16LE(le) <= n

\* Read::read_exact leaves it unspecified how much of a stream it has read
\* when it fails: a Cursor stays where the read began or moves to the end, a
\* BufReader has consumed the rest of the file.
PosAfterFailedRead(d, p) == {p, Len(d)}

\* The buffer as it would be if the read ran to the end of the stream (the
\* variant C3 is tested against).
entry_buffer_to_end(d, start, n) == SubSeq(d, start + 1, Len(d))

\* let mut entry_buffer = vec![0; record_length]; read_exact(&mut entry_buffer)
\* at position `start`, where at least n bytes are left.
entry_buffer(d, start, n) == SubSeq(d, start + 1, start + n)

\* self.data.read_u32::<LittleEndian>() at p.
read_u32(d, p) ==
    IF Len(d) - p < 4 THEN [ok |-> FALSE, bytes |-> <<>>, after |-> PosAfterFailedRead(d, p)]
    ELSE [ok |-> TRUE, bytes |-> SubSeq(d, p + 1, p + 4), after |-> {p + 4}]

NoCur == [start |-> 0, record_length |-> <<>>]
NoLast == [kind |-> "init", start |-> 0, avail |-> 0, record_length |-> <<>>,
           consumed |-> 0]

\* next as it would be if a short read of the body were reported (the
\* variant C4 is tested against).
read_record_reporting_eof(d, start, rl) ==
    IF ~AtMost(rl, Len(d) - start)
    THEN [kind |-> "err", after |-> PosAfterFailedRead(d, start),
          consumed |-> 0, entry |-> NoEntry]
    ELSE The({ The({ [kind |-> IF r.ok THEN "ok" ELSE "err",
                      after |-> {start + Len(buf)},
                      consumed |-> r.consumed, entry |-> r.entry]
                     : r \in {from_buffer(buf)} })
               : buf \in {SubSeq(d, start + 1, start + U16LE(rl))} })

\* Lines 254-269 of next: seek to the start of the record, read record_length
\* bytes, decode them.  kind "none" is None, "ok" Some(Ok), "err" Some(Err).
read_record(d, start, rl) ==
    IF ~AtMost(rl, Len(d) - start)
    THEN [kind |-> "none", after |-> PosAfterFailedRead(d, start),
          consumed |-> 0, entry |-> NoEntry]
    ELSE The({ The({ [kind |-> IF r.ok THEN "ok" ELSE "err",
                      after |-> {start + Len(buf)},
                      consumed |-> r.consumed, entry |-> r.entry]
                     : r \in {from_buffer(buf)} })
               : buf \in {entry_buffer(d, start, U16LE(rl))} })

UsnInit ==
    /\ shape \in Shapes
    /\ data = Concat(shape)
    /\ pos = 0
    /\ pc = "idle"
    /\ cur = NoCur
    /\ last = NoLast
    /\ oks = <<>>
    /\ errAt = {}

\* next, lines 241-252: the stream position, then the record's length.
ReadLength ==
    /\ pc = "idle"
    /\ \E r \in {read_u32(data, pos)} :
           /\ pos' \in r.after
           /\ IF r.ok
              THEN /\ pc' = "have_length"
                   /\ cur' = [start |-> pos, record_length |-> r.bytes]
                   /\ last' = last
              ELSE /\ pc' = "done"
                   /\ cur' = NoCur
                   /\ last' = [kind |-> "none", start |-> pos, avail |-> Len(data) - pos,
                               record_length |-> <<>>, consumed |-> 0]
    /\ UNCHANGED <<shape, data, oks, errAt>>

\* next, lines 254-269.
ReadRecord ==
    /\ pc = "have_length"
    /\ \E r \in {read_record(data, cur.start, cur.record_length)} :
           /\ pos' \in r.after
           /\ pc' = IF r.kind = "none" THEN "done" ELSE "idle"
           /\ last' = [kind |-> r.kind, start |-> cur.start,
                       avail |-> Len(data) - cur.start,
                       record_length |-> cur.record_length, consumed |-> r.consumed]
           /\ oks' = IF r.kind = "ok"
                     THEN Append(oks, [start |-> cur.start, entry |-> r.entry])
                     ELSE oks
           /\ errAt' = IF r.kind = "err" THEN errAt \cup {cur.start} ELSE errAt
    /\ cur' = NoCur
    /\ UNCHANGED <<shape, data>>

(***************************************************************************)
(* mft_dump: Ranges::from_str (the --ranges argument).  Strings are        *)
(* sequences of characters; a parsed number is its decimal numeral.        *)
(***************************************************************************)
\* The longest --ranges argument drawn from the alphabet.
MaxStrLen == 5

Digit == {"0", "1", "2", "3", "4", "5", "6", "7", "8", "9"}

DigitValue ==
    ("0" :> 0) @@ ("1" :> 1) @@ ("2" :> 2) @@ ("3" :> 3) @@ ("4" :> 4) @@
    ("5" :> 5) @@ ("6" :> 6) @@ ("7" :> 7) @@ ("8" :> 8) @@ ("9" :> 9)

\* usize::MAX on a 64-bit target: 18446744073709551615
usize_MAX == <<1, 8, 4, 4, 6, 7, 4, 4, 0, 7, 3, 7, 0, 9, 5, 5, 1, 6, 1, 5>>

\* The order of two decimal numerals (no leading zeros) of one length.
RECURSIVE LexLeq(_, _, _)
LexLeq(a, b, i) ==
    IF i > Len(a) THEN TRUE
    ELSE IF a[i] # b[i] THEN a[i] < b[i]
    ELSE LexLeq(a, b, i + 1)

NumeralLeq(a, b) == Len(a) < Len(b) \/ (Len(a) = Len(b) /\ LexLeq(a, b, 1))

\* str::parse::<usize>: empty fails; one leading '+' is taken; every other
\* character must be a digit; the value must not exceed usize::MAX.
parse_usize(x) ==
    IF x = <<>> THEN [ok |-> FALSE, val |-> <<>>]
    ELSE LET digits == IF x[1] = "+" THEN Tail(x) ELSE x
         IN  IF digits = <<>> \/ \E i \in 1..Len(digits) : digits[i] \notin Digit
             THEN [ok |-> FALSE, val |-> <<>>]
             ELSE LET n == StripZeros([i \in 1..Len(digits) |-> DigitValue[digits[i]]])
                  IN  IF ~NumeralLeq(n, usize_MAX) THEN [ok |-> FALSE, val |-> <<>>]
                      ELSE [ok |-> TRUE, val |-> IF n = <<>> THEN <<0>> ELSE n]

\* str::split(c): the pieces of s between the occurrences of c, from the
\* i-th character on, `piece` being the piece under way.
RECURSIVE split_from(_, _, _, _)
split_from(s, c, i, piece) ==
    IF i > Len(s) THEN <<piece>>
    ELSE IF s[i] = c THEN <<piece>> \o split_from(s, c, i + 1, <<>>)
    ELSE split_from(s, c, i + 1, Append(piece, s[i]))

split(s, c) == split_from(s, c, 1, <<>>)

contains(s, c) == \E i \in 1..Len(s) : s[i] = c

\* from_str as it would be if it only required a '-' item to have at least
\* two parts (the variant C8 is tested against).
parse_item_lenient(x) ==
    IF contains(x, "-")
    THEN LET range == split(x, "-")
         IN  IF Len(range) < 2 THEN [ok |-> FALSE, range |-> <<>>]
             ELSE LET a == parse_usize(range[1])
                      b == parse_usize(range[2])
                  IN  IF a.ok /\ b.ok THEN [ok |-> TRUE, range |-> <<a.val, b.val>>]
                      ELSE [ok |-> FALSE, range |-> <<>>]
    ELSE LET n == parse_usize(x)
         IN  IF n.ok THEN [ok |-> TRUE, range |-> <<n.val, n.val>>]
             ELSE [ok |-> FALSE, range |-> <<>>]

\* The body of the loop of from_str for the item x: the range it pushes, or
\* the error it returns.
parse_item(x) ==
    IF contains(x, "-")
    THEN LET range == split(x, "-")
         IN  IF Len(range) # 2 THEN [ok |-> FALSE, range |-> <<>>]
             ELSE LET a == parse_usize(range[1])
                      b == parse_usize(range[2])
                  IN  IF a.ok /\ b.ok THEN [ok |-> TRUE, range |-> <<a.val, b.val>>]
                      ELSE [ok |-> FALSE, range |-> <<>>]
    ELSE LET n == parse_usize(x)
         IN  IF n.ok THEN [ok |-> TRUE, range |-> <<n.val, n.val>>]
             ELSE [ok |-> FALSE, range |-> <<>>]

\* The loop of from_str over the items from the k-th on: the first error
\* returns; `ranges` are the ranges pushed so far.
RECURSIVE from_str_loop(_, _, _)
from_str_loop(items, k, ranges) ==
    IF k > Len(items) THEN [ok |-> TRUE, ranges |-> ranges]
    ELSE LET r == parse_item(items[k])
         IN  IF ~r.ok THEN [ok |-> FALSE, ranges |-> <<>>]
             ELSE from_str_loop(items, k + 1, Append(ranges, r.range))

Ranges_from_str(s) == from_str_loop(split(s, ","), 1, <<>>)

Alphabet == {"0", "1", "-", ",", "+", "h"}

\* The arguments of the tests, and the numbers at the edge of usize.
NamedInputs ==
    { <<"1", "-", "5", ",", "8", ",", "1", "0", "-", "1", "9">>,
      <<"1", "-", "1", "0", ",", "2", "0", "-", "2", "5">>,
      <<"1", "-", "5", "-", "8">>,
      <<"h", "e", "l", "l", "o">>,
      <<"1", "8", "4", "4", "6", "7", "4", "4", "0", "7", "3", "7", "0", "9", "5",
        "5", "1", "6", "1", "5">>,
      <<"1", "8", "4", "4", "6", "7", "4", "4", "0", "7", "3", "7", "0", "9", "5",
        "5", "1", "6", "1", "6">> }

Inputs == NamedInputs \cup UNION {[1..n -> Alphabet] : n \in 0..MaxStrLen}

VARIABLES
    input,   \* the string given to Ranges::from_str
    parsed   \* what from_str returned, once it has (state "done")

rangesVars == <<input, parsed>>

NotParsed(st) == [state |-> st, ok |-> FALSE, ranges |-> <<>>]

RangesIdle == input = <<>> /\ parsed = NotParsed("idle")

from_str ==
    /\ parsed.state = "pending"
    /\ \E r \in {Ranges_from_str(input)} :
          parsed' = [state |-> "done", ok |-> r.ok, ranges |-> r.ranges]
    /\ UNCHANGED input

(***************************************************************************)
(* mft_dump: main and MftDump::from_cli_matches.  The file system and the  *)
(* terminal are the environment: what stands at the --output path and at   *)
(* the stream directory, what the user answers, and whether a create call  *)
(* succeeds.                                                               *)
(***************************************************************************)
VARIABLES
    cli,          \* the arguments: which options are present
    target,       \* what stands at the --output path
    ds_dir,       \* what stands at the --extract-resident-streams path
    prompt,       \* the confirmation prompt: not shown, or how it ended
    file_create,  \* File::create of the output file: not called, ok, failed
    mpc,          \* where main is
    run_started   \* app.run() has been called

mainVars == <<cli, target, ds_dir, prompt, file_create, mpc, run_started>>

\* The values of --ranges main is run with.
RangeArgs ==
    { <<"1", "-", "5", ",", "8">>, <<"1", "-", "5", "-", "8">> }

\* std::fs::File::create(p): on success the file exists and is empty; `was`
\* tells a truncated file from a new one.
File_create(t, create_ok, shown) ==
    IF create_ok
    THEN [ok |-> TRUE, prompt |-> shown, file_create |-> "ok",
          target |-> [kind |-> "file", parent |-> "exists",
                      content |-> IF t.kind = "file" THEN "truncated" ELSE "new"]]
    ELSE [ok |-> FALSE, prompt |-> shown, file_create |-> "failed", target |-> t]

Refused(t, shown) ==
    [ok |-> FALSE, prompt |-> shown, file_create |-> "not_called", target |-> t]

\* create_output_file as it would be if it never asked (the variant C9 is
\* tested against).
create_output_file_unprompted(t, ask, answer, create_ok, mkdir_ok) ==
    IF t.kind = "dir" THEN Refused(t, "not_shown")
    ELSE IF t.kind = "file" THEN File_create(t, create_ok, "not_shown")
    ELSE CASE t.parent = "none"    -> Refused(t, "not_shown")
           [] t.parent = "exists"  -> File_create(t, create_ok, "not_shown")
           [] t.parent = "missing" ->
                IF mkdir_ok THEN File_create(t, create_ok, "not_shown")
                ELSE Refused(t, "not_shown")

create_output_file(t, ask, answer, create_ok, mkdir_ok) ==
    IF t.kind = "dir" THEN Refused(t, "not_shown")
    ELSE IF t.kind = "file"
    THEN IF ask
         THEN CASE answer = "yes"  -> File_create(t, create_ok, "confirmed")
                [] answer = "no"   -> Refused(t, "declined")
                [] answer = "fail" -> Refused(t, "failed")
         ELSE File_create(t, create_ok, "not_shown")
    ELSE CASE t.parent = "none"    -> Refused(t, "not_shown")
           [] t.parent = "exists"  -> File_create(t, create_ok, "not_shown")
           [] t.parent = "missing" ->
                IF mkdir_ok THEN File_create(t, create_ok, "not_shown")
                ELSE Refused(t, "not_shown")

create_output_dir(d, mkdir_ok) ==
    CASE d = "file"   -> [ok |-> FALSE, dir |-> d]
      [] d = "dir"    -> [ok |-> TRUE, dir |-> d]
      [] d = "absent" -> IF mkdir_ok THEN [ok |-> TRUE, dir |-> "dir"]
                         ELSE [ok |-> FALSE, dir |-> d]

Targets ==
    { [kind |-> "dir", parent |-> "exists", content |-> "none"],
      [kind |-> "file", parent |-> "exists", content |-> "old"] }
    \cup { [kind |-> "absent", parent |-> p, content |-> "none"] :
              p \in {"exists", "missing", "none"} }

MainInit ==
    /\ cli \in [output_target : BOOLEAN, no_confirm_overwrite : BOOLEAN,
                data_streams_target : BOOLEAN,
                entry_range : {[some |-> FALSE, text |-> <<>>]}
                              \cup {[some |-> TRUE, text |-> r] : r \in RangeArgs}]
    /\ target \in Targets
    /\ ds_dir \in {"absent", "file", "dir"}
    /\ prompt = "not_shown"
    /\ file_create = "not_called"
    /\ mpc = "start"
    /\ run_started = FALSE

MainIdle ==
    /\ cli = [output_target |-> FALSE, no_confirm_overwrite |-> FALSE,
              data_streams_target |-> FALSE,
              entry_range |-> [some |-> FALSE, text |-> <<>>]]
    /\ target = [kind |-> "absent", parent |-> "exists", content |-> "none"]
    /\ ds_dir = "absent"
    /\ prompt = "not_shown"
    /\ file_create = "not_called"
    /\ mpc = "off"
    /\ run_started = FALSE

\* MftDump::from_cli_matches: the output file, then the stream directory,
\* then the ranges; the first error returns.
from_cli_matches ==
    /\ mpc = "start"
    /\ \E answer \in {"yes", "no", "fail"}, create_ok, mkdir_ok, ds_mkdir_ok \in BOOLEAN :
          \E o \in { IF cli.output_target
                     THEN create_output_file(target, ~cli.no_confirm_overwrite,
                                             answer, create_ok, mkdir_ok)
                     ELSE [ok |-> TRUE, prompt |-> "not_shown",
                           file_create |-> "not_called", target |-> target] } :
             /\ target' = o.target
             /\ prompt' = o.prompt
             /\ file_create' = o.file_create
             /\ IF ~o.ok
                THEN mpc' = "setup_failed" /\ ds_dir' = ds_dir
                ELSE \E d \in { IF cli.data_streams_target
                                THEN create_output_dir(ds_dir, ds_mkdir_ok)
                                ELSE [ok |-> TRUE, dir |-> ds_dir] } :
                        /\ ds_dir' = d.dir
                        /\ mpc' = IF /\ d.ok
                                     /\ cli.entry_range.some
                                           => Ranges_from_str(cli.entry_range.text).ok
                                  THEN "constructed"
                                  ELSE "setup_failed"
    /\ UNCHANGED <<cli, run_started>>

\* main, on Err from from_cli_matches: the message, then exit(1).
exit_on_setup_error ==
    /\ mpc = "setup_failed"
    /\ mpc' = "exit_1"
    /\ UNCHANGED <<cli, target, ds_dir, prompt, file_create, run_started>>

\* main, on Ok(app): app.run(), followed step by step in RunSpec; here it
\* is its result that matters, Ok or Err (exit(1)).
app_run ==
    /\ mpc = "constructed"
    /\ run_started' = TRUE
    /\ \E result \in {"ok", "err"} :
          mpc' = IF result = "ok" THEN "exit_0" ELSE "exit_1"
    /\ UNCHANGED <<cli, target, ds_dir, prompt, file_create>>

(***************************************************************************)
(* mft_dump: MftDump::run.  The MFT is the sequence of what get_entry      *)
(* gives for each index; the iterator `entries` is the queue of indices     *)
(* still to visit.                                                         *)
(***************************************************************************)
\* The number of entries of the MFT (parser.get_entry_count()).
MaxEntries == 2

\* The most ranges a --ranges argument holds.
MaxRanges == 2

\* get_entry fails.
Failing ==
    [decode |-> "err", signature |-> "none", path |-> FALSE, attributes |-> <<>>]

\* An unused slot: decodes, with the zeroed signature.
Zeroed ==
    [decode |-> "ok", signature |-> "ZERO_HEADER", path |-> FALSE, attributes |-> <<>>]

\* An entry whose path does not resolve (get_full_path_for_entry gives
\* Ok(None) or Err), with one resident stream.
Unresolved ==
    [decode |-> "ok", signature |-> "FILE", path |-> FALSE,
     attributes |-> << [ok |-> TRUE, type_code |-> "DATA", resident |-> TRUE, name |-> ""] >>]

\* A file: an attribute that does not decode, a resident unnamed stream, a
\* name, a stream that is not resident and a resident named stream.
Resolved ==
    [decode |-> "ok", signature |-> "FILE", path |-> TRUE,
     attributes |->
        << [ok |-> FALSE, type_code |-> "none", resident |-> FALSE, name |-> ""],
           [ok |-> TRUE, type_code |-> "DATA", resident |-> TRUE, name |-> ""],
           [ok |-> TRUE, type_code |-> "FILE_NAME", resident |-> TRUE, name |-> ""],
           [ok |-> TRUE, type_code |-> "DATA", resident |-> FALSE, name |-> "big"],
           [ok |-> TRUE, type_code |-> "DATA", resident |-> TRUE, name |-> "ads"] >>]

EntryKinds == {Failing, Zeroed, Unresolved, Resolved}

\* The values rand::random() takes: two, so that one can come twice.
Randoms == {"A1", "B2"}

VARIABLES
    opts,     \* the MftDump: ranges and data_streams_output
    mft,      \* the entries of the input, by index + 1
    rstate,   \* run: "new", "loop", or returned "ok" / "err"
    queue,    \* the indices the iterator `entries` still holds
    out,      \* the indices of the records written to the output
    files,    \* the stream files in the stream directory
    overwritten,  \* the stream files created over a file that was there
    failure   \* the error run returned

runVars == <<opts, mft, rstate, queue, out, files, overwritten, failure>>

RECURSIVE range_inclusive(_, _)
range_inclusive(a, b) == IF a > b THEN <<>> ELSE <<a>> \o range_inclusive(a + 1, b)

\* The ranges, flattened last first (the variant C7 is tested against).
RECURSIVE chain_reversed(_)
chain_reversed(ranges) ==
    IF ranges = <<>> THEN <<>>
    ELSE chain_reversed(Tail(ranges)) \o range_inclusive(Head(ranges)[1], Head(ranges)[2])

\* Ranges::chain: the ranges flattened, in their order.
RECURSIVE chain(_)
chain(ranges) ==
    IF ranges = <<>> THEN <<>>
    ELSE range_inclusive(Head(ranges)[1], Head(ranges)[2]) \o chain(Tail(ranges))

\* The iterator `entries` of run (lines 308 to 311).
requested(o, number_of_entries) ==
    IF o.ranges.some THEN chain(o.ranges.list)
    ELSE range_inclusive(0, number_of_entries - 1)

get_entry(m, i) == IF i + 1 \in DOMAIN m THEN m[i + 1] ELSE Failing

\* The filter as it would be if it kept every attribute that decodes (the
\* variant C15 is tested against).
IsDecoded(a) == a.ok

\* filter_map(|a| a.ok()), type_code == DATA, a.data.into_data() is Some.
IsResidentData(a) == a.ok /\ a.type_code = "DATA" /\ a.resident

\* The streams the filter_map chain of run keeps, in order.
resident_streams(entry) == SelectSeq(entry.attributes, IsResidentData)

\* File::create(p) in the stream directory d: the file is there afterwards,
\* and one that was there before is truncated.
File_create_stream(d, p) ==
    [files |-> d.files \cup {p},
     overwritten |-> IF p \in d.files THEN d.overwritten \cup {p} ELSE d.overwritten]

\* How the loop over the streams ended in the directory d.
Ended(d, how) ==
    [files |-> d.files, overwritten |-> d.overwritten, failure |-> how]

\* The loop as it would be without the check of lines 372 to 378 (the
\* variant C14 is tested against).
RECURSIVE write_streams_unchecked(_, _, _, _)
write_streams_unchecked(i, streams, k, d) ==
    IF k >= Len(streams) THEN {Ended(d, "none")}
    ELSE UNION {
           LET p == <<i, random, k, streams[k + 1].name>>
           IN  {Ended(d, "stream_io"), Ended(File_create_stream(d, p), "stream_io")}
               \cup write_streams_unchecked(i, streams, k + 1, File_create_stream(d, p))
           : random \in Randoms }

\* The loop over the streams from stream_number k on: every way it can end.
\* A path is the entry, the random part, the stream number and the name.
\* File::create fails, or write_all does, or both succeed.
RECURSIVE write_streams(_, _, _, _)
write_streams(i, streams, k, d) ==
    IF k >= Len(streams) THEN {Ended(d, "none")}
    ELSE UNION {
           LET p == <<i, random, k, streams[k + 1].name>>
           IN  IF p \in d.files
               THEN {Ended(d, "stream_exists")}
               ELSE {Ended(d, "stream_io"), Ended(File_create_stream(d, p), "stream_io")}
                    \cup write_streams(i, streams, k + 1, File_create_stream(d, p))
           : random \in Randoms }

\* Lines 333 to 385: the extraction for one entry.
extract_streams(o, i, entry, d) ==
    IF o.data_streams_output /\ entry.path
    THEN write_streams(i, resident_streams(entry), 0, d)
    ELSE {Ended(d, "none")}

RangeLists ==
    UNION { [1..n -> (0..(MaxEntries - 1)) \X (0..(MaxEntries - 1))] : n \in 0..MaxRanges }

RunInit ==
    /\ opts \in [ranges : {[some |-> FALSE, list |-> <<>>]}
                          \cup {[some |-> TRUE, list |-> l] : l \in RangeLists},
                 data_streams_output : BOOLEAN]
    /\ mft \in [1..MaxEntries -> EntryKinds]
    /\ rstate = "new"
    /\ queue = <<>>
    /\ out = <<>>
    /\ files = {}
    /\ overwritten = {}
    /\ failure = "none"

RunIdle ==
    /\ opts = [ranges |-> [some |-> FALSE, list |-> <<>>], data_streams_output |-> FALSE]
    /\ mft = <<>>
    /\ rstate = "off"
    /\ queue = <<>>
    /\ out = <<>>
    /\ files = {}
    /\ overwritten = {}
    /\ failure = "none"

\* Lines 277 to 311: the parser is opened and the iterator made.
run_open ==
    /\ rstate = "new"
    /\ \E opened \in BOOLEAN :
          IF opened
          THEN /\ rstate' = "loop"
               /\ queue' = requested(opts, Len(mft))
               /\ failure' = failure
          ELSE /\ rstate' = "err"
               /\ failure' = "open"
               /\ queue' = queue
    /\ UNCHANGED <<opts, mft, out, files, overwritten>>

\* One turn of the loop (lines 313 to 397): the entry is fetched, skipped if
\* it fails or is zeroed, its streams are extracted, its record is printed.
\* The first failure of the extraction or of the print returns.
run_iteration ==
    /\ rstate = "loop"
    /\ queue # <<>>
    /\ LET i == Head(queue)
           entry == get_entry(mft, i)
       IN  IF entry.decode = "err" \/ entry.signature = "ZERO_HEADER"
           THEN /\ queue' = Tail(queue)
                /\ UNCHANGED <<rstate, out, files, overwritten, failure>>
           ELSE \E x \in extract_streams(opts, i, entry,
                                          [files |-> files, overwritten |-> overwritten]) :
                   /\ files' = x.files
                   /\ overwritten' = x.overwritten
                   /\ IF x.failure # "none"
                      THEN /\ rstate' = "err"
                           /\ failure' = x.failure
                           /\ UNCHANGED <<queue, out>>
                      ELSE \E printed \in BOOLEAN :
                              IF printed
                              THEN /\ out' = Append(out, i)
                                   /\ queue' = Tail(queue)
                                   /\ UNCHANGED <<rstate, failure>>
                              ELSE /\ rstate' = "err"
                                   /\ failure' = "print"
                                   /\ UNCHANGED <<queue, out>>
    /\ UNCHANGED <<opts, mft>>

\* The iterator is exhausted: Ok(()) (line 399).
run_return ==
    /\ rstate = "loop"
    /\ queue = <<>>
    /\ rstate' = "ok"
    /\ UNCHANGED <<opts, mft, queue, out, files, overwritten, failure>>

(***************************************************************************)
(* UsnJournalEntry::from_buffer on one record: the fields that are kept as *)
(* flags and the file name.  The records drawn differ in the raw reason    *)
(* and source_info words, in the code units of the name and in the offset  *)
(* the header declares for the name.                                       *)
(***************************************************************************)
\* The most UTF-16 code units in the name of a record drawn for the decoder.
MaxNameUnits == 3

\* Code units as bytes: 'h', a lead surrogate (0xD83D), a trail surrogate
\* (0xDE00).
NameUnits == {<<104, 0>>, <<61, 216>>, <<0, 222>>}

RECURSIVE Flatten(_)
Flatten(ss) == IF ss = <<>> THEN <<>> ELSE Head(ss) \o Flatten(Tail(ss))

\* The names: up to MaxNameUnits code units, then nothing or one odd byte.
NameBytes ==
    { Flatten(us) \o odd :
        us \in UNION {[1..n -> NameUnits] : n \in 0..MaxNameUnits},
        odd \in {<<>>, <<105>>} }

\* Raw flag words: no bit, one defined bit, every bit, and 0x7F400088, which
\* has no bit that either flag type defines.
RawFlagWords ==
    { <<0, 0, 0, 0>>, <<2, 0, 0, 0>>, <<255, 255, 255, 255>>, <<136, 0, 64, 127>>,
      <<3, 1, 0, 128>> }

\* The offsets a header declares for the name: just behind the header, and
\* four bytes further.
NameOffsets == {60, 64}

\* The bytes between the header and a name at offset `off`: "z" in UTF-16LE,
\* as often as it takes.
RECURSIVE Gap(_)
Gap(off) == IF off <= 60 THEN <<>> ELSE <<122, 0>> \o Gap(off - 2)

\* The image of a record with the name at file_name_offset.
RecordLayout(reason, source_info, name, file_name_offset) ==
    <<60 + Len(Gap(file_name_offset)) + Len(name), 0, 0, 0>> \o <<2, 0, 0, 0>>
        \o <<115, 0, 0, 0, 0, 0, 1, 0>> \o <<59, 0, 0, 0, 0, 0, 7, 0>>
        \o <<7, 0, 0, 0, 0, 0, 0, 0>> \o <<83, 199, 0, 0, 0, 0, 0, 0>>
        \o reason \o source_info \o <<0, 0, 0, 0>> \o <<32, 0, 0, 0>>
        \o <<Len(name), 0>> \o <<file_name_offset, 0>>
        \o Gap(file_name_offset) \o name

Records ==
    { RecordLayout(r, si, n, off) :
        r \in RawFlagWords, si \in RawFlagWords, n \in NameBytes, off \in NameOffsets }

VARIABLES
    buf,      \* the bytes of the record given to from_buffer
    decoded   \* what from_buffer returned, once it has (state "done")

decodeVars == <<buf, decoded>>

NotDecoded(st) == [state |-> st, ok |-> FALSE, entry |-> NoEntry]

DecodeIdle == buf = <<>> /\ decoded = NotDecoded("idle")

DecodeInit == buf \in Records /\ decoded = NotDecoded("pending")

\* UsnJournalEntry::from_buffer(&mut Cursor::new(buf))
decode ==
    /\ decoded.state = "pending"
    /\ \E r \in {from_buffer(buf)} :
          decoded' = [state |-> "done", ok |-> r.ok, entry |-> r.entry]
    /\ UNCHANGED buf

(***************************************************************************)
(* The flags and get_meaning.  A flags value is the set of the positions   *)
(* of its bits (bit 0 is 0x00000001, bit 31 is 0x80000000).                *)
(***************************************************************************)
\* The most bits in a flags value given to get_meaning.
MaxFlags == 2

\* The flags UsnReasonFlags declares, in the order of the declaration.
UsnReasonFlags_bits == {15, 31, 17, 1, 0, 2, 10, 18, 8, 9, 16, 14, 5, 4, 6, 19, 13, 12, 20, 11, 21, 23}

\* The flags UsnSourceInfoFlags declares.
UsnSourceInfoFlags_bits == {0, 1, 2}

\* The arms of the match of UsnReasonFlags::get_meaning, each the value of
\* one bit, with the first line of the text it gives.
UsnReasonFlags_descriptions ==
    (15 :> "A user has either changed one or more files or directory attributes") @@
    (31 :> "The file or directory is closed.") @@
    (17 :> "The compression state of the file or directory is changed from (or to) compressed.") @@
    (1 :> "The file or directory is extended (added to).") @@
    (0 :> "The data in the file or directory is overwritten.") @@
    (2 :> "The file or directory is truncated.") @@
    (10 :> "The user made a change to the extended") @@
    (18 :> "The file or directory is encrypted or decrypted.") @@
    (8 :> "The file or directory is created for the first time.") @@
    (9 :> "The file or directory is deleted.") @@
    (16 :> "A hard link is added to (or removed from) the file or directory.") @@
    (14 :> "A user changes the FILE_ATTRIBUTE_NOT_CONTEXT_INDEXED attribute. That is, the") @@
    (5 :> "The one (or more) named data stream for a file is extended (added to).") @@
    (4 :> "The data in one (or more) named data stream for a file is overwritten.") @@
    (6 :> "One (or more) named data stream for a file is truncated.") @@
    (19 :> "The object identifier of a file or directory is changed.") @@
    (13 :> "A file or directory is renamed, and the file name in the USN_RECORD structure") @@
    (12 :> "The file or directory is renamed, and the file name in the USN_RECORD structure") @@
    (20 :> "The reparse point that is contained in a file or directory is changed, or a") @@
    (11 :> "A change is made in the access rights to a file or directory.") @@
    (21 :> "A named stream is added to (or removed from) a file, or a named stream is renamed.") @@
    (23 :> "A change is made in the integrity status of a file or directory.")

\* The arms of the match of UsnSourceInfoFlags::get_meaning.
UsnSourceInfoFlags_descriptions ==
    (0 :> "The operation provides information about a change to") @@
    (1 :> "The operation adds a private data stream to a file or") @@
    (2 :> "The operation modified the file to match the")

\* get_meaning as it would be if it looked for a flag the value holds (the
\* variant C16 is tested against).
UsnReasonFlags_get_meaning_contained(bits) ==
    IF \E k \in DOMAIN UsnReasonFlags_descriptions : k \in bits
    THEN UsnReasonFlags_descriptions[
             CHOOSE k \in DOMAIN UsnReasonFlags_descriptions : k \in bits]
    ELSE ""

\* match self.bits { one bit => its text, _ => "" }
UsnReasonFlags_get_meaning(bits) ==
    IF \E k \in DOMAIN UsnReasonFlags_descriptions : bits = {k}
    THEN UsnReasonFlags_descriptions[
             CHOOSE k \in DOMAIN UsnReasonFlags_descriptions : bits = {k}]
    ELSE ""

UsnSourceInfoFlags_get_meaning(bits) ==
    IF \E k \in DOMAIN UsnSourceInfoFlags_descriptions : bits = {k}
    THEN UsnSourceInfoFlags_descriptions[
             CHOOSE k \in DOMAIN UsnSourceInfoFlags_descriptions : bits = {k}]
    ELSE ""

\* The sets of at most n elements of S.
RECURSIVE SubsetsUpTo(_, _)
SubsetsUpTo(S, n) ==
    IF n = 0 THEN {{}}
    ELSE LET P == SubsetsUpTo(S, n - 1)
         IN  P \cup {p \cup {x} : p \in P, x \in S}

\* The flags values: from_bits_truncate leaves only declared bits.
FlagsValues ==
    {[type |-> "UsnReasonFlags", bits |-> b] :
        b \in SubsetsUpTo(UsnReasonFlags_bits, MaxFlags)}
    \cup {[type |-> "UsnSourceInfoFlags", bits |-> b] :
        b \in SubsetsUpTo(UsnSourceInfoFlags_bits, MaxFlags)}

VARIABLES
    flags,    \* the flags value get_meaning is called on
    meaning   \* what get_meaning returned, once it has (state "done")

meaningVars == <<flags, meaning>>

MeaningIdle ==
    /\ flags = [type |-> "none", bits |-> {}]
    /\ meaning = [state |-> "idle", text |-> ""]

MeaningInit ==
    /\ flags \in FlagsValues
    /\ meaning = [state |-> "pending", text |-> ""]

get_meaning ==
    /\ meaning.state = "pending"
    /\ meaning' = [state |-> "done",
                   text |-> IF flags.type = "UsnReasonFlags"
                            THEN UsnReasonFlags_get_meaning(flags.bits)
                            ELSE UsnSourceInfoFlags_get_meaning(flags.bits)]
    /\ UNCHANGED flags

(***************************************************************************)
(* next over a stream whose calls can fail: stream_position, read_u32,     *)
(* seek and read_exact return an io::Error other than UnexpectedEof.       *)
(***************************************************************************)
\* The most calls that fail in one run.
MaxFaults == 1

VARIABLES
    io_fault,  \* the call that failed in the last call of next, or "none"
    faults     \* the number of calls that have failed

ioVars == <<io_fault, faults>>

IoIdle == io_fault = "none" /\ faults = 0

\* What next returned at `start`, with nothing decoded.
Returned(kind, start, rl) ==
    [kind |-> kind, start |-> start, avail |-> Len(data) - start,
     record_length |-> rl, consumed |-> 0]

\* Line 241-244: Err(e) => return Some(Err(e.into())).
stream_position_fails ==
    /\ pc = "idle"
    /\ faults < MaxFaults
    /\ faults' = faults + 1
    /\ io_fault' = "stream_position"
    /\ last' = Returned("err", pos, <<>>)
    /\ errAt' = errAt \cup {pos}
    /\ UNCHANGED <<shape, data, pos, pc, cur, oks>>

\* Line 247-252, an error that is not UnexpectedEof:
\* Err(e) => return Some(Err(e.into())).
read_u32_fails ==
    /\ pc = "idle"
    /\ faults < MaxFaults
    /\ faults' = faults + 1
    /\ io_fault' = "read_u32"
    /\ pos' \in PosAfterFailedRead(data, pos)
    /\ last' = Returned("err", pos, <<>>)
    /\ errAt' = errAt \cup {pos}
    /\ UNCHANGED <<shape, data, pc, cur, oks>>

\* Line 255-258: Err(e) => return Some(Err(e.into())).
seek_fails ==
    /\ pc = "have_length"
    /\ faults < MaxFaults
    /\ faults' = faults + 1
    /\ io_fault' = "seek"
    /\ pc' = "idle"
    /\ cur' = NoCur
    /\ last' = Returned("err", cur.start, cur.record_length)
    /\ errAt' = errAt \cup {cur.start}
    /\ UNCHANGED <<shape, data, pos, oks>>

\* Line 261-265: Err(_) => return None, whatever the error.
read_exact_fails ==
    /\ pc = "have_length"
    /\ faults < MaxFaults
    /\ faults' = faults + 1
    /\ io_fault' = "read_exact"
    /\ pc' = "done"
    /\ cur' = NoCur
    /\ pos' \in PosAfterFailedRead(data, cur.start)
    /\ last' = Returned("none", cur.start, cur.record_length)
    /\ UNCHANGED <<shape, data, oks, errAt>>

(***************************************************************************)
(* The specifications.                                                     *)
(***************************************************************************)
vars == <<usnVars, ioVars, rangesVars, mainVars, runVars, decodeVars, meaningVars>>

UsnIdle ==
    /\ shape = <<>> /\ data = <<>> /\ pos = 0 /\ pc = "off"
    /\ cur = NoCur /\ last = NoLast /\ oks = <<>> /\ errAt = {}

\* The journal iterator over a stream.
Init == UsnInit /\ IoIdle /\ RangesIdle /\ MainIdle /\ RunIdle /\ DecodeIdle /\ MeaningIdle

Next ==
    \/ ReadLength /\ UNCHANGED <<ioVars, rangesVars, mainVars, runVars, decodeVars, meaningVars>>
    \/ ReadRecord /\ UNCHANGED <<ioVars, rangesVars, mainVars, runVars, decodeVars, meaningVars>>

Spec == Init /\ [][Next]_vars

\* The consumer of the iterator (for record in parser) calls next again
\* after every item, and next runs to its return.
FairSpec == Spec /\ WF_vars(Next)

\* Ranges::from_str on an argument.
RangesInit ==
    /\ input \in Inputs /\ parsed = NotParsed("pending")
    /\ UsnIdle /\ IoIdle /\ MainIdle /\ RunIdle /\ DecodeIdle /\ MeaningIdle

RangesNext == from_str /\ UNCHANGED <<usnVars, ioVars, mainVars, runVars, decodeVars, meaningVars>>

RangesSpec == RangesInit /\ [][RangesNext]_vars

\* main, from the arguments to the exit.
MainSpecInit == MainInit /\ UsnIdle /\ IoIdle /\ RangesIdle /\ RunIdle /\ DecodeIdle /\ MeaningIdle

MainNext ==
    \/ from_cli_matches /\ UNCHANGED <<usnVars, ioVars, rangesVars, runVars, decodeVars, meaningVars>>
    \/ exit_on_setup_error /\ UNCHANGED <<usnVars, ioVars, rangesVars, runVars, decodeVars, meaningVars>>
    \/ app_run /\ UNCHANGED <<usnVars, ioVars, rangesVars, runVars, decodeVars, meaningVars>>

MainSpec == MainSpecInit /\ [][MainNext]_vars

\* MftDump::run on a constructed MftDump.
RunSpecInit == RunInit /\ UsnIdle /\ IoIdle /\ RangesIdle /\ MainIdle /\ DecodeIdle /\ MeaningIdle

RunNext ==
    \/ run_open /\ UNCHANGED <<usnVars, ioVars, rangesVars, mainVars, decodeVars, meaningVars>>
    \/ run_iteration /\ UNCHANGED <<usnVars, ioVars, rangesVars, mainVars, decodeVars, meaningVars>>
    \/ run_return /\ UNCHANGED <<usnVars, ioVars, rangesVars, mainVars, decodeVars, meaningVars>>

RunSpec == RunSpecInit /\ [][RunNext]_vars

\* UsnJournalEntry::from_buffer on a record.
DecodeSpecInit ==
    DecodeInit /\ UsnIdle /\ IoIdle /\ RangesIdle /\ MainIdle /\ RunIdle /\ MeaningIdle

DecodeNext ==
    decode /\ UNCHANGED <<usnVars, ioVars, rangesVars, mainVars, runVars, meaningVars>>

DecodeSpec == DecodeSpecInit /\ [][DecodeNext]_vars

\* get_meaning on a flags value.
MeaningSpecInit ==
    MeaningInit /\ UsnIdle /\ IoIdle /\ RangesIdle /\ MainIdle /\ RunIdle /\ DecodeIdle

MeaningNext ==
    get_meaning /\ UNCHANGED <<usnVars, ioVars, rangesVars, mainVars, runVars, decodeVars>>

MeaningSpec == MeaningSpecInit /\ [][MeaningNext]_vars

\* The journal iterator over a stream whose calls can fail.
IoSpecInit == UsnInit /\ IoIdle /\ RangesIdle /\ MainIdle /\ RunIdle /\ DecodeIdle /\ MeaningIdle

IoNext ==
    \/ ReadLength /\ io_fault' = "none" /\ UNCHANGED faults
         /\ UNCHANGED <<rangesVars, mainVars, runVars, decodeVars, meaningVars>>
    \/ ReadRecord /\ io_fault' = "none" /\ UNCHANGED faults
         /\ UNCHANGED <<rangesVars, mainVars, runVars, decodeVars, meaningVars>>
    \/ stream_position_fails
         /\ UNCHANGED <<rangesVars, mainVars, runVars, decodeVars, meaningVars>>
    \/ read_u32_fails
         /\ UNCHANGED <<rangesVars, mainVars, runVars, decodeVars, meaningVars>>
    \/ seek_fails
         /\ UNCHANGED <<rangesVars, mainVars, runVars, decodeVars, meaningVars>>
    \/ read_exact_fails
         /\ UNCHANGED <<rangesVars, mainVars, runVars, decodeVars, meaningVars>>

IoSpec == IoSpecInit /\ [][IoNext]_vars

(***************************************************************************)
(* Claims about the journal iterator and the record decoder.               *)
(***************************************************************************)
\* The n bytes of the stream at offset `off` of the record that starts at s.
Field(s, off, n) == SubSeq(data, s + off + 1, s + off + n)

\* Whether the stream holds the 96-byte sample record at offset s.
SampleAt(s) == s + Len(BUFFER) <= Len(data) /\ Field(s, 0, Len(BUFFER)) = BUFFER

WellFormedChunks == {"sample", "small"}
PaddingChunks == {"zero4", "zero1"}

\* K well-formed records followed by zero padding.
PaddedShape(sh) ==
    \E k \in 0..Len(sh) :
        /\ \A i \in 1..k : sh[i] \in WellFormedChunks
        /\ \A i \in (k + 1)..Len(sh) : sh[i] \in PaddingChunks

RECURSIVE RecordsOf(_, _)
RecordsOf(sh, at) ==
    IF sh = <<>> THEN <<>>
    ELSE (IF Head(sh) \in WellFormedChunks
          THEN <<[start |-> at, entry |-> from_buffer(Chunk[Head(sh)]).entry]>>
          ELSE <<>>) \o RecordsOf(Tail(sh), at + Len(Chunk[Head(sh)]))

\* C1: over a stream of K well-formed records followed by zero bytes, the
\* iterator yields no error item, and when it has returned None it has yielded
\* exactly the K records, in stream order.
C1_ZeroPaddingIsSilent ==
    PaddedShape(shape) =>
        /\ errAt = {}
        /\ pc = "done" => oks = RecordsOf(shape, 0)

\* C2: over every stream, the calls of next reach None: the consumer's loop
\* ends.
C2_IterationEnds == <>(pc = "done")

\* C3: when a call of next has yielded an item, the decoding has read no byte
\* at or beyond start + record_length (the file name included, whatever
\* file_name_length declares: the name of an Ok item is the bytes of the
\* record after the header), and the cursor rests at start + record_length.
C3_DecodedWithinRecord ==
    (pc = "idle" /\ last.kind \in {"ok", "err"}) =>
        /\ AtMost(last.record_length, last.avail)
        /\ last.consumed <= U16LE(last.record_length)
        /\ pos = last.start + U16LE(last.record_length)
        /\ last.kind = "ok" =>
              LET e == oks[Len(oks)].entry
              IN  /\ 60 + e.file_name_length <= U16LE(last.record_length)
                  /\ e.file_name =
                       UTF_16LE_decode(Field(last.start, 60, e.file_name_length))

\* A record whose file_name_length reaches beyond its record_length, with
\* bytes of a following chunk behind it, has been yielded (as an error).
C3_Witness ==
    /\ pc = "idle" /\ last.kind = "err"
    /\ U16LE(last.record_length) = 64
    /\ U16LE(Field(last.start, 56, 2)) = 8
    /\ pos < Len(data)

\* C4: a call of next that begins with fewer than 4 bytes left, or that finds
\* fewer bytes than the declared record_length left from the record's start,
\* returns None, and no error item is yielded for that position.
C4_EndOfStreamIsSilent ==
    (last.kind # "init"
       /\ (last.avail < 4 \/ ~AtMost(Field(last.start, 0, 4), last.avail))) =>
        /\ last.kind = "none"
        /\ pc = "done"
        /\ last.start \notin errAt

\* A call has ended in None on a record whose length field was read but whose
\* declared bytes are not all there.
C4_Witness ==
    /\ last.kind = "none" /\ last.avail >= 4
    /\ last.avail < 64 /\ U16LE(last.record_length) = 64

\* The streams of C5: every chunk is the image of a record all of whose
\* declared bytes are present (and that holds at least its own length field).
RecordChunks == WellFormedChunks \cup {"longname", "tiny", "zero4"}

\* C5: in a stream of well-formed records and of records that are present in
\* full but fail to decode, every well-formed record is yielded as Ok.
C5_LaterRecordsStillYielded ==
    (\A i \in 1..Len(shape) : shape[i] \in RecordChunks) =>
        <>(\A i \in 1..Len(shape) :
              shape[i] \in WellFormedChunks =>
                  \E k \in 1..Len(oks) : oks[k].start = ChunkStart(shape, i))

\* "BTDevManager.log"
BTDevManager_log ==
    <<66, 84, 68, 101, 118, 77, 97, 110, 97, 103, 101, 114, 46, 108, 111, 103>>

\* C6: every Ok entry holds the little-endian values of the bytes at the
\* fixed offsets of its record, and the entry of the 96-byte sample record
\* holds the values the test names.
C6_HeaderLayout ==
    \A k \in 1..Len(oks) :
        LET s == oks[k].start
            e == oks[k].entry
        IN  /\ e.record_length = ULE(Field(s, 0, 4))
            /\ e.major_version = U16LE(Field(s, 4, 2))
            /\ e.minor_version = U16LE(Field(s, 6, 2))
            /\ e.file_reference_number = ULE(Field(s, 8, 8))
            /\ e.parent_file_reference_number = ULE(Field(s, 16, 8))
            /\ e.usn = ILE(Field(s, 24, 8))
            /\ e.time_stamp = ULE(Field(s, 32, 8))
            /\ e.reason = ULE(AndLE(Field(s, 40, 4), UsnReasonFlags_all))
            /\ e.source_info = ULE(AndLE(Field(s, 44, 4), UsnSourceInfoFlags_all))
            /\ e.security_id = ULE(Field(s, 48, 4))
            /\ e.file_attributes = ULE(AndLE(Field(s, 52, 4), FileAttributeFlags_all))
            /\ e.file_name_length = U16LE(Field(s, 56, 2))
            /\ e.file_name_offset = U16LE(Field(s, 58, 2))
            /\ SampleAt(s) =>
                  /\ e.record_length = <<9, 6>>
                  /\ e.major_version = 2
                  /\ e.minor_version = 0
                  /\ e.usn = [neg |-> FALSE, mag |-> <<2, 0, 3, 4, 2, 3, 7, 4, 4, 0, 0>>]
                  /\ e.reason = <<2>>
                  /\ e.source_info = <<0>>
                  /\ e.security_id = <<0>>
                  /\ e.file_attributes = <<8, 2, 2, 4>>
                  /\ e.file_name_length = 32
                  /\ e.file_name_offset = 60
                  /\ e.file_name = BTDevManager_log

\* The sample record has been decoded, at a position past the stream's start.
C6_Witness ==
    \E k \in 1..Len(oks) :
        oks[k].start > 0 /\ SampleAt(oks[k].start)

\* C10: no Ok entry has a negative usn.
C10_UsnNeverNegative ==
    \A k \in 1..Len(oks) : ~oks[k].entry.usn.neg

(***************************************************************************)
(* Claims about Ranges::from_str (RangesSpec).                             *)
(***************************************************************************)
\* The comma-separated items of s, told by the positions of the commas.
ItemsOf(s) ==
    LET cuts == {0, Len(s) + 1} \cup {i \in 1..Len(s) : s[i] = ","}
        cut(k) == CHOOSE c \in cuts : Cardinality({d \in cuts : d < c}) = k - 1
    IN  [k \in 1..(Cardinality(cuts) - 1) |-> SubSeq(s, cut(k) + 1, cut(k + 1) - 1)]

\* An unsigned integer as the claim words it: one or more decimal digits.
IsUnsigned(x) == x # <<>> /\ \A i \in 1..Len(x) : x[i] \in Digit

ValueOf(x) ==
    LET ds == IF x # <<>> /\ x[1] = "+" THEN Tail(x) ELSE x
        n  == StripZeros([i \in 1..Len(ds) |-> DigitValue[ds[i]]])
    IN  IF n = <<>> THEN <<0>> ELSE n

\* A usize literal: one or more decimal digits after at most one '+', of a
\* value that does not exceed usize::MAX.
IsUsizeLiteral(x) ==
    /\ \/ IsUnsigned(x)
       \/ x # <<>> /\ x[1] = "+" /\ IsUnsigned(Tail(x))
    /\ NumeralLeq(ValueOf(x), usize_MAX)

Dashes(x) == {i \in 1..Len(x) : x[i] = "-"}

\* An item is a number, or two numbers joined by exactly one '-'.
ItemIs(x, IsNumber(_)) ==
    \/ IsNumber(x)
    \/ \E j \in Dashes(x) :
          /\ Dashes(x) = {j}
          /\ IsNumber(SubSeq(x, 1, j - 1))
          /\ IsNumber(SubSeq(x, j + 1, Len(x)))

RangeOf(x) ==
    IF Dashes(x) = {} THEN <<ValueOf(x), ValueOf(x)>>
    ELSE LET j == CHOOSE i \in Dashes(x) : TRUE
         IN  <<ValueOf(SubSeq(x, 1, j - 1)), ValueOf(SubSeq(x, j + 1, Len(x)))>>

FromStrAccepts(IsNumber(_)) ==
    parsed.state = "done" =>
        LET items == ItemsOf(input)
        IN  /\ parsed.ok <=> \A k \in 1..Len(items) : ItemIs(items[k], IsNumber)
            /\ parsed.ok => parsed.ranges = [k \in 1..Len(items) |-> RangeOf(items[k])]
            /\ ~parsed.ok => parsed.ranges = <<>>
            /\ (\E k \in 1..Len(items) : Cardinality(Dashes(items[k])) > 1 \/ items[k] = <<>>)
                  => ~parsed.ok

Example_1_5_8_10_19 == <<"1", "-", "5", ",", "8", ",", "1", "0", "-", "1", "9">>

\* C8 as amended: Ranges::from_str succeeds exactly when every
\* comma-separated item is a usize literal or two usize literals joined by
\* exactly one '-', a usize literal being one or more decimal digits after at
\* most one '+' with a value of at most usize::MAX; on success it yields one
\* inclusive range per item in input order (n becomes n..=n, a-b becomes
\* a..=b, "1-5,8,10-19" gives [1..=5, 8..=8, 10..=19]); an item that is
\* empty, not such a literal, or holds more than one '-' makes it return an
\* error and no ranges.
C8_FromStrUsizeLiterals ==
    /\ FromStrAccepts(IsUsizeLiteral)
    /\ (parsed.state = "done" /\ input = Example_1_5_8_10_19) =>
          /\ parsed.ok
          /\ parsed.ranges = << <<<<1>>, <<5>>>>, <<<<8>>, <<8>>>>, <<<<1, 0>>, <<1, 9>>>> >>

\* C8, the case it is about: the example of the claim has been parsed into
\* its three ranges.
C8_Witness ==
    /\ parsed.state = "done"
    /\ input = Example_1_5_8_10_19
    /\ Len(parsed.ranges) = 3

\* C8 as stated: Ranges::from_str succeeds exactly when every item is an
\* unsigned integer (decimal digits) or two of them joined by exactly one
\* '-'.  It does not hold: "+1" is accepted, 18446744073709551616 is refused.
C8_FromStrUnsignedIntegers == FromStrAccepts(IsUnsigned)

(***************************************************************************)
(* Claims about MftDump::run (RunSpec).                                    *)
(***************************************************************************)
\* The indices run was asked for, in the order the claim gives: the ranges
\* one after the other as written, each ascending, or every index.
RECURSIVE Requested(_)
Requested(l) ==
    IF l = <<>> THEN <<>>
    ELSE Requested(SubSeq(l, 1, Len(l) - 1))
            \o [k \in 1..(l[Len(l)][2] - l[Len(l)][1] + 1) |-> l[Len(l)][1] + k - 1]

RequestedIndices ==
    IF opts.ranges.some THEN Requested(opts.ranges.list)
    ELSE [k \in 1..Len(mft) |-> k - 1]

\* The entry at index i decodes, with a signature other than the zeroed one.
Emits(i) ==
    /\ i + 1 \in DOMAIN mft
    /\ mft[i + 1].decode = "ok"
    /\ mft[i + 1].signature # "ZERO_HEADER"

\* The indices run has gone past.
Visited == SubSeq(RequestedIndices, 1, Len(RequestedIndices) - Len(queue))

\* What holds of every run: the indices are visited in the order requested,
\* a record has been written for each visited index that emits, in that
\* order, and an index that does not emit never ends the run.  What is left
\* to the two statements below is which failures excuse a run from writing
\* the records of all the requested indices.
RunVisitsInOrder(Excused) ==
    rstate \in {"loop", "ok", "err"} =>
        /\ failure = "open" => out = <<>>
        /\ failure # "open" =>
              /\ Len(queue) <= Len(RequestedIndices)
              /\ queue = SubSeq(RequestedIndices,
                                Len(RequestedIndices) - Len(queue) + 1,
                                Len(RequestedIndices))
              /\ out = SelectSeq(Visited, Emits)
              /\ rstate = "err" => queue # <<>> /\ Emits(Head(queue))
        /\ (rstate \in {"ok", "err"} /\ failure \notin Excused)
              => out = SelectSeq(RequestedIndices, Emits)

\* C7 as amended: run visits the requested indices in order (the ranges in
\* their textual order, or 0 .. entry_count-1) and, provided no output write
\* fails and the extraction of resident streams does not end the run (a
\* stream path that exists already, a stream file that cannot be created or
\* written), emits exactly one record, in that order, for each index whose
\* entry decodes with a signature other than the zeroed one; an index whose
\* decode fails or whose entry is zeroed produces no record and never stops
\* the loop.
C7_RunEmitsInOrder ==
    RunVisitsInOrder({"open", "print", "stream_io", "stream_exists"})

\* C7, the case it is about: run has returned Ok after ranges that are not
\* ascending, where an index that emits nothing is followed by a smaller
\* one that emits.
C7_Witness ==
    /\ rstate = "ok"
    /\ opts.ranges.some
    /\ \E k \in 1..(Len(RequestedIndices) - 1) :
          /\ ~Emits(RequestedIndices[k])
          /\ Emits(RequestedIndices[k + 1])
          /\ RequestedIndices[k + 1] < RequestedIndices[k]
    /\ out # <<>>

\* C7 as stated: provided no output write fails (the print of a record, the
\* creation or the write of a stream file; the input must open), run emits
\* a record for every requested index that decodes.  It does not hold: a
\* stream path that exists already ends the run with no write having failed.
C7_RunEmitsUnlessWriteFails ==
    RunVisitsInOrder({"open", "print", "stream_io"})

(***************************************************************************)
(* Claims about the extraction of resident streams (RunSpec).              *)
(***************************************************************************)
\* C14: the extraction never writes to a path that exists: no stream file
\* is created over a file that was there, and a stream path that exists
\* makes run return an error.
C14_ExistingStreamNeverOverwritten ==
    /\ overwritten = {}
    /\ failure = "stream_exists" => rstate = "err"

\* C14, the case it is about: a stream path existed and run returned the
\* error, with the file that was there still there.
C14_Witness ==
    /\ rstate = "err"
    /\ failure = "stream_exists"
    /\ files # {}
    /\ overwritten = {}

\* An attribute that decoded, of type DATA, with a resident payload.
Qualifies(a) == a.ok /\ a.type_code = "DATA" /\ a.resident

\* The stream number and the name of every qualifying attribute of an
\* entry: the number is how many qualifying attributes come before it.
ExpectedStreams(entry) ==
    { << Cardinality({m \in 1..(j - 1) : Qualifies(entry.attributes[m])}),
         entry.attributes[j].name >> :
        j \in {j \in DOMAIN entry.attributes : Qualifies(entry.attributes[j])} }

\* The extraction is enabled and the path of entry i resolves.
Extracts(i) == opts.data_streams_output /\ get_entry(mft, i).path

\* Every stream file is that of a qualifying attribute of an entry that is
\* extracted, under its 0-based position among the qualifying ones.
OnlyQualifyingWritten ==
    \A p \in files :
        /\ Extracts(p[1])
        /\ <<p[3], p[4]>> \in ExpectedStreams(get_entry(mft, p[1]))

\* The turns of the loop for entry i whose extraction ran to its end: those
\* that printed, and the one whose print failed.
CompletedVisits(i) ==
    Cardinality({n \in DOMAIN out : out[n] = i})
    + (IF rstate = "err" /\ failure = "print" /\ Head(queue) = i THEN 1 ELSE 0)

\* The turn of the loop for entry i whose extraction ended with an error.
FailedVisits(i) ==
    IF rstate = "err" /\ failure \in {"stream_io", "stream_exists"} /\ Head(queue) = i
    THEN 1 ELSE 0

\* Every qualifying attribute of entry i has a stream file for each of
\* `visits` turns of the loop.
AllQualifyingWritten(i, visits) ==
    Extracts(i) =>
        \A st \in ExpectedStreams(get_entry(mft, i)) :
            Cardinality({r \in Randoms : <<i, r, st[1], st[2]>> \in files}) >= visits

WasRegularFile == target.content \in {"old", "truncated"}

\* What holds with and without --no-confirm-overwrite: the file is
\* truncated only after the user confirms; a declined or failed prompt
\* leaves the file as it was, set-up fails and run is never started; with
\* --no-confirm-overwrite no prompt is shown.
OverwriteIsConfirmed ==
    /\ (cli.output_target /\ ~cli.no_confirm_overwrite /\ target.content = "truncated")
          => prompt = "confirmed"
    /\ prompt \in {"declined", "failed"} =>
          /\ cli.output_target /\ ~cli.no_confirm_overwrite
          /\ mpc \in {"setup_failed", "exit_1"}
          /\ target.content = "old"
          /\ file_create = "not_called"
          /\ ~run_started
    /\ (cli.output_target /\ cli.no_confirm_overwrite) => prompt = "not_shown"
    /\ ~cli.output_target => target.content \in {"old", "none"}

\* C9 as amended: when the --output target exists as a regular file and
\* --no-confirm-overwrite is not passed, the file is truncated only after
\* the user confirms the prompt; if the user declines or the prompt fails,
\* set-up returns an error, the file is left unchanged and run is never
\* started.  With --no-confirm-overwrite no prompt is shown and the file is
\* truncated exactly when File::create succeeds; when it fails, set-up
\* returns an error, the file is left unchanged and run is never started.
C9_OverwriteIsConfirmed ==
    /\ OverwriteIsConfirmed
    /\ (mpc # "start" /\ cli.output_target /\ cli.no_confirm_overwrite /\ WasRegularFile)
          => /\ file_create \in {"ok", "failed"}
             /\ file_create = "ok" <=> target.content = "truncated"
             /\ file_create = "failed" =>
                   /\ mpc \in {"setup_failed", "exit_1"}
                   /\ target.content = "old"
                   /\ ~run_started

\* C9, the case it is about: the user has declined to overwrite the
\* existing file and main has exited.
C9_Witness ==
    /\ cli.output_target /\ ~cli.no_confirm_overwrite
    /\ prompt = "declined"
    /\ target.content = "old"
    /\ mpc = "exit_1"

\* C9 as stated: with --no-confirm-overwrite the existing file is
\* overwritten without asking.  It does not hold when File::create fails.
C9_NoConfirmOverwrites ==
    /\ OverwriteIsConfirmed
    /\ (mpc # "start" /\ cli.output_target /\ cli.no_confirm_overwrite /\ WasRegularFile)
          => target.content = "truncated"

(***************************************************************************)
(* Claims about the decoding of one record (DecodeSpec).                   *)
(***************************************************************************)
\* The n bytes of the record at offset off.
RecordField(off, n) == SubSeq(buf, off + 1, off + n)

DeclaredNameLength == U16LE(RecordField(56, 2))
DeclaredNameOffset == U16LE(RecordField(58, 2))

\* The characters of UTF-16LE bytes with the malformed code units left out:
\* a unit outside 0xD800..0xDFFF is a character, a lead surrogate
\* (0xD800..0xDBFF) with a trail surrogate (0xDC00..0xDFFF) right behind it
\* is one character, and every other surrogate and a final odd byte are
\* malformed.
WellFormedCharacters(bytes) ==
    LET n == Len(bytes) \div 2
        u(i) == bytes[2 * i - 1] + 256 * bytes[2 * i]
        lead(i) == u(i) \div 1024 = 54
        trail(i) == u(i) \div 1024 = 55
        piece(i) ==
            IF ~lead(i) /\ ~trail(i) THEN <<u(i)>>
            ELSE IF lead(i) /\ i < n /\ trail(i + 1)
                 THEN <<65536 + 1024 * (u(i) % 1024) + (u(i + 1) % 1024)>>
                 ELSE <<>>
    IN  Flatten([i \in 1..n |-> piece(i)])

\* C11: a record whose header is readable and whose name bytes are all
\* there decodes to Ok whatever malformed UTF-16LE the name holds (unpaired
\* surrogates, an odd number of bytes); file_name is the well-formed
\* characters of the name bytes, in order, the malformed units dropped.
C11_MalformedNameUnitsDropped ==
    (decoded.state = "done" /\ 60 + DeclaredNameLength <= Len(buf)) =>
        /\ decoded.ok
        /\ decoded.entry.file_name =
              WellFormedCharacters(RecordField(60, DeclaredNameLength))

\* C11, the case it is about: a name of an odd number of bytes with an
\* unpaired surrogate has been decoded, and a character of it is kept.
C11_Witness ==
    /\ decoded.state = "done" /\ decoded.ok
    /\ DeclaredNameLength % 2 = 1
    /\ Len(decoded.entry.file_name) > 0
    /\ Len(decoded.entry.file_name) < (DeclaredNameLength \div 2) - 1

\* C13: the file_name of a decoded record is the decoding of the
\* file_name_length bytes at file_name_offset, for every offset that keeps
\* the name inside the record.
C13_NameReadAtDeclaredOffset ==
    (decoded.state = "done" /\ decoded.ok
        /\ DeclaredNameOffset >= 60
        /\ DeclaredNameOffset + DeclaredNameLength <= Len(buf)) =>
        decoded.entry.file_name =
            WellFormedCharacters(RecordField(DeclaredNameOffset, DeclaredNameLength))

(***************************************************************************)
(* Claims about the flags.                                                 *)
(***************************************************************************)
\* The positions of the bits set in the four little-endian bytes `le`.
BitsOfWord(le) ==
    {8 * (i - 1) + j : i \in 1..4, j \in 0..7} \cap
    {k \in 0..31 : (le[(k \div 8) + 1] \div (2 ^ (k % 8))) % 2 = 1}

RECURSIVE ByteOfBits(_, _, _)
ByteOfBits(S, i, j) ==
    IF j > 7 THEN 0
    ELSE (IF 8 * (i - 1) + j \in S THEN 2 ^ j ELSE 0) + ByteOfBits(S, i, j + 1)

\* The four little-endian bytes whose set bits are at the positions S.
WordOfBits(S) == [i \in 1..4 |-> ByteOfBits(S, i, 0)]

\* C16: get_meaning of either flag type gives a non-empty description for a
\* value that is exactly one declared flag (22 reason flags, 3 source-info
\* flags) and the empty string for the empty value and for every value of
\* two or more flags.
C16_GetMeaningMatchesOneFlag ==
    /\ Cardinality(UsnReasonFlags_bits) = 22
    /\ Cardinality(UsnSourceInfoFlags_bits) = 3
    /\ meaning.state = "done" =>
          /\ Cardinality(flags.bits) = 1 => meaning.text # ""
          /\ Cardinality(flags.bits) # 1 => meaning.text = ""

\* get_meaning has returned for a value of two reason flags.
C16_Witness ==
    /\ meaning.state = "done"
    /\ flags.type = "UsnReasonFlags"
    /\ Cardinality(flags.bits) = 2
    /\ meaning.text = ""

\* C17: decoding does not fail on bits that are no declared flag: reason is
\* the raw word with only the bits of the 22 reason flags kept, source_info
\* the raw word with only bits 0..2 (0x7) kept.
C17_UndefinedBitsDropped ==
    decoded.state = "done" =>
        /\ decoded.ok
        /\ decoded.entry.reason =
              ULE(WordOfBits(BitsOfWord(RecordField(40, 4))
                             \cap UsnReasonFlags_bits))
        /\ decoded.entry.source_info =
              ULE(WordOfBits(BitsOfWord(RecordField(44, 4)) \cap {0, 1, 2}))

\* A record whose reason and source_info words have undefined bits set has
\* been decoded, and both fields differ from the raw words.
C17_Witness ==
    /\ decoded.state = "done"
    /\ decoded.ok
    /\ BitsOfWord(RecordField(40, 4)) \ UsnReasonFlags_bits # {}
    /\ BitsOfWord(RecordField(40, 4)) \cap UsnReasonFlags_bits # {}
    /\ BitsOfWord(RecordField(44, 4)) \ {0, 1, 2} # {}
    /\ decoded.entry.reason # ULE(RecordField(40, 4))
    /\ decoded.entry.source_info # ULE(RecordField(44, 4))

(***************************************************************************)
(* Claims about next over a stream whose calls can fail.                   *)
(***************************************************************************)
\* C12: a call of next in which stream_position, read_u32, seek or
\* read_exact failed with an error other than the end of the stream has
\* returned an error item, never None.
C12_IoFailureIsAnErrorItem ==
    io_fault # "none" => last.kind = "err"

====
